---------------------------- MODULE Spec2Model ----------------------------
(***************************************************************************)
(* A model of the GPA calculator (src/app.py): the record store kept in    *)
(* the Streamlit session, the handlers of the sidebar (add form, randomize *)
(* and clear buttons), and the pipeline every script run executes on the   *)
(* store (normalisation, overall GPA, per-period GPA, display orders and   *)
(* the two exports).                                                       *)
(*                                                                         *)
(* Representation.                                                         *)
(*  - A Python str is a sequence of one-character strings ("Q1" is         *)
(*    <<"Q","1">>).  A subject name whose letters no operation inspects is *)
(*    written as one symbol (<<"Matematika">>); whitespace is always       *)
(*    written character by character.                                      *)
(*  - A grade is a tagged value: [kind |-> "str", s |-> chars, n |-> 0]    *)
(*    or [kind |-> "num", s |-> <<>>, n |-> hundredths], so 86 is 8600     *)
(*    and 89.99 is 8999.                                                   *)
(*  - Credits are counted in half credits (the form's step is 0.5), so 4   *)
(*    credits is 8.                                                        *)
(*  - A float quotient is the exact fraction [num, den] in lowest terms;   *)
(*    den = 0 marks a division by zero.                                    *)
(***************************************************************************)
EXTENDS Integers, Sequences, FiniteSets, TLC

VARIABLES records, banner, form, submits, call

vars == <<records, banner, form, submits, call>>

---------------------------------------------------------------------------
(* Bounds of the model *)

\* successful form submissions explored after the store was last replaced
MaxSubmits == 2
\* seeds of the pseudo-random generator explored: 0 .. MaxSeed
MaxSeed == 3
\* largest size handed to generate_random_records in a direct call
MaxSize == 11
\* seeds explored in a direct call of generate_random_records: 0 .. MaxCallSeed
MaxCallSeed == 149
\* largest numeric score (in hundredths) handed to score_to_points
MaxScore == 10050
\* longest letter grade / period label (in characters) handed to the parsers
MaxChars == 3
\* longest frame handed to calculate_overall_gpa
MaxLen == 3
\* longest frame of varying grades and credits handed to the period summary
MaxRows == 3
\* longest frame of varying period labels handed to the period summary
MaxPeriods == 4

---------------------------------------------------------------------------
(* Python strings *)

LOWERCASE == <<"a","b","c","d","e","f","g","h","i","j","k","l","m",
               "n","o","p","q","r","s","t","u","v","w","x","y","z">>
UPPERCASE == <<"A","B","C","D","E","F","G","H","I","J","K","L","M",
               "N","O","P","Q","R","S","T","U","V","W","X","Y","Z">>
DIGITS == <<"0","1","2","3","4","5","6","7","8","9">>
WHITESPACE == {" ", "\t"}

\* code point order of the characters the labels are written with
CODEPOINTS == <<"\t", " ", "-", ".", "/">> \o DIGITS \o UPPERCASE \o LOWERCASE

IndexOf(seq, x) == CHOOSE i \in 1..Len(seq) : seq[i] = x

Contains(seq, x) == \E i \in 1..Len(seq) : seq[i] = x

\* the position of each character of CODEPOINTS
OrdTable == [c \in {CODEPOINTS[i] : i \in 1..Len(CODEPOINTS)} |->
               IndexOf(CODEPOINTS, c)]

\* ord(c); a symbol outside CODEPOINTS (a non-ASCII name) sorts after ASCII
Ord(c) == IF c \in DOMAIN OrdTable THEN OrdTable[c] ELSE Len(CODEPOINTS) + 1

\* the upper-case form of each lower-case letter
UpperTable == [c \in {LOWERCASE[i] : i \in 1..Len(LOWERCASE)} |->
                 UPPERCASE[IndexOf(LOWERCASE, c)]]

\* str.upper() on one character
UpperChar(c) == IF c \in DOMAIN UpperTable THEN UpperTable[c] ELSE c

\* str.upper()
Upper(s) == [i \in 1..Len(s) |-> UpperChar(s[i])]

RECURSIVE LStrip(_)
LStrip(s) == IF s # <<>> /\ Head(s) \in WHITESPACE THEN LStrip(Tail(s)) ELSE s

RECURSIVE RStrip(_)
RStrip(s) == IF s # <<>> /\ s[Len(s)] \in WHITESPACE
             THEN RStrip(SubSeq(s, 1, Len(s) - 1)) ELSE s

\* str.strip()
Strip(s) == RStrip(LStrip(s))

\* str.startswith(c) for a one-character prefix
StartsWith(s, c) == s # <<>> /\ Head(s) = c

\* s < t in Python's string order (by code point, a proper prefix first)
RECURSIVE StrLess(_, _)
StrLess(s, t) ==
    IF t = <<>> THEN FALSE
    ELSE IF s = <<>> THEN TRUE
    ELSE IF Head(s) = Head(t) THEN StrLess(Tail(s), Tail(t))
    ELSE Ord(Head(s)) < Ord(Head(t))

\* the decimal digits of a natural number
RECURSIVE Decimal(_)
Decimal(n) == IF n < 10 THEN <<DIGITS[n + 1]>>
              ELSE Decimal(n \div 10) \o <<DIGITS[(n % 10) + 1]>>

\* str() of a number held in hundredths: 8600 is "86", 8999 is "89.99"
NumStr(h) ==
    LET a == IF h < 0 THEN -h ELSE h
        whole == Decimal(a \div 100)
        frac == a % 100
        tail == IF frac = 0 THEN <<>>
                ELSE IF frac % 10 = 0 THEN <<".", DIGITS[(frac \div 10) + 1]>>
                ELSE <<".", DIGITS[(frac \div 10) + 1], DIGITS[(frac % 10) + 1]>>
    IN  (IF h < 0 THEN <<"-">> ELSE <<>>) \o whole \o tail

\* str(score_value)
PyStr(v) == IF v.kind = "str" THEN v.s ELSE NumStr(v.n)

LetterGrade(s) == [kind |-> "str", s |-> s, n |-> 0]
NumericGrade(h) == [kind |-> "num", s |-> <<>>, n |-> h]

---------------------------------------------------------------------------
(* Floats as exact fractions *)

RECURSIVE Gcd(_, _)
Gcd(a, b) == IF b = 0 THEN a ELSE Gcd(b, a % b)

Abs(x) == IF x < 0 THEN -x ELSE x

\* n / d for d >= 0; a zero divisor gives the marked value (inf or nan)
Quotient(n, d) ==
    IF d = 0 THEN [num |-> n, den |-> 0]
    ELSE LET g == Gcd(Abs(n), d) IN [num |-> n \div g, den |-> d \div g]

\* the float 0.0
Zero == [num |-> 0, den |-> 1]

---------------------------------------------------------------------------
(* Module constants *)

LETTERS == <<"A", "B", "C", "D", "F">>

\* LETTER_TO_POINTS[letter], for a letter of LETTERS
LETTER_TO_POINTS(letter) ==
    CASE letter = "A" -> 4
      [] letter = "B" -> 3
      [] letter = "C" -> 2
      [] letter = "D" -> 1
      [] letter = "F" -> 0

RANDOM_SUBJECTS == << <<"Matematika">>, <<"Fizika">>, <<"Himiya">>,
                      <<"Biologiya">>, <<"Tarih">>, <<"Agylshyn tili">>,
                      <<"Informatika">>, <<"Geografiya">>, <<"Oner">>,
                      <<"Qazaq tili">> >>

SCORE_TYPES == <<"Letter", "Numeric">>

PERIODS == << <<"Q","1">>, <<"Q","2">>, <<"Q","3">>, <<"Q","4">>,
              <<"S","1">>, <<"S","2">> >>

---------------------------------------------------------------------------
(* Grade normaliser and period classifier *)

\* the object None, where a label is missing (no string is equal to it)
None == <<"<None>">>

\* parse_period without upper()
parse_period_as_typed(period_raw) ==
    LET value == Strip(IF period_raw = None THEN <<>> ELSE period_raw)
    IN  IF StartsWith(value, "Q") THEN <<"Quarter", value>>
        ELSE IF StartsWith(value, "S") THEN <<"Semester", value>>
        ELSE <<"Other", IF value # <<>> THEN value ELSE <<"N","/","A">> >>

parse_period(period_raw) ==
    LET value == Upper(Strip(IF period_raw = None THEN <<>> ELSE period_raw))
    IN  IF StartsWith(value, "Q") THEN <<"Quarter", value>>
        ELSE IF StartsWith(value, "S") THEN <<"Semester", value>>
        ELSE <<"Other", IF value # <<>> THEN value ELSE <<"N","/","A">> >>

\* score_to_points with the thresholds exclusive
score_to_points_exclusive(score_type, score_value) ==
    IF score_type = "Letter"
    THEN LET key == Upper(PyStr(score_value))
         IN  IF Len(key) = 1 /\ Contains(LETTERS, key[1])
             THEN LETTER_TO_POINTS(key[1]) ELSE 0
    ELSE LET numeric == score_value.n
         IN  IF numeric > 90 * 100 THEN 4
             ELSE IF numeric > 80 * 100 THEN 3
             ELSE IF numeric > 70 * 100 THEN 2
             ELSE IF numeric > 60 * 100 THEN 1
             ELSE 0

\* score_to_points looking the letter up as it was entered
score_to_points_case_sensitive(score_type, score_value) ==
    IF score_type = "Letter"
    THEN LET key == PyStr(score_value)
         IN  IF Len(key) = 1 /\ Contains(LETTERS, key[1])
             THEN LETTER_TO_POINTS(key[1]) ELSE 0
    ELSE LET numeric == score_value.n
         IN  IF numeric >= 90 * 100 THEN 4
             ELSE IF numeric >= 80 * 100 THEN 3
             ELSE IF numeric >= 70 * 100 THEN 2
             ELSE IF numeric >= 60 * 100 THEN 1
             ELSE 0

score_to_points(score_type, score_value) ==
    IF score_type = "Letter"
    THEN LET key == Upper(PyStr(score_value))
         IN  IF Len(key) = 1 /\ Contains(LETTERS, key[1])
             THEN LETTER_TO_POINTS(key[1]) ELSE 0
    ELSE LET numeric == score_value.n
         IN  IF numeric >= 90 * 100 THEN 4
             ELSE IF numeric >= 80 * 100 THEN 3
             ELSE IF numeric >= 70 * 100 THEN 2
             ELSE IF numeric >= 60 * 100 THEN 1
             ELSE 0

\* one row of normalize_df's result
normalize_row(row) ==
    LET gpa_points == score_to_points(row.score_type, row.grade)
        parsed == parse_period(row.period)
    IN  [subject |-> row.subject, credits |-> row.credits,
         score_type |-> row.score_type, grade |-> row.grade,
         period |-> row.period,
         gpa_points |-> gpa_points,
         weighted_points |-> gpa_points * row.credits,
         period_type |-> parsed[1], period_name |-> parsed[2]]

normalize_df(df) == [i \in 1..Len(df) |-> normalize_row(df[i])]

\* Series.sum() of a column, left to right
RECURSIVE SumCredits(_)
SumCredits(data) ==
    IF data = <<>> THEN 0 ELSE Head(data).credits + SumCredits(Tail(data))

RECURSIVE SumWeighted(_)
SumWeighted(data) ==
    IF data = <<>> THEN 0
    ELSE Head(data).weighted_points + SumWeighted(Tail(data))

\* calculate_overall_gpa guarding only against negative totals
calculate_overall_gpa_unguarded(data) ==
    LET total_credits == SumCredits(data)
    IN  IF total_credits < 0 THEN Zero
        ELSE Quotient(SumWeighted(data), total_credits)

calculate_overall_gpa(data) ==
    LET total_credits == SumCredits(data)
    IN  IF total_credits <= 0 THEN Zero
        ELSE Quotient(SumWeighted(data), total_credits)

---------------------------------------------------------------------------
(* Per-period summary (groupby) and the display orders *)

\* the values of period_type, in the order groupby sorts them
PERIOD_TYPES == <<"Other", "Quarter", "Semester">>

GroupKey(row) == <<row.period_type, row.period_name>>

\* a < b for two group keys, compared as tuples of strings
KeyLess(a, b) ==
    \/ IndexOf(PERIOD_TYPES, a[1]) < IndexOf(PERIOD_TYPES, b[1])
    \/ a[1] = b[1] /\ StrLess(a[2], b[2])

\* the group keys in ascending order (groupby's sort=True)
RECURSIVE SortKeys(_)
SortKeys(S) ==
    IF S = {} THEN <<>>
    ELSE LET m == CHOOSE x \in S : \A y \in S \ {x} : KeyLess(x, y)
         IN  <<m>> \o SortKeys(S \ {m})

\* the rows of one group, in frame order
GroupRows(data, k) == SelectSeq(data, LAMBDA r : GroupKey(r) = k)

\* the quotient without the guard
period_gpa_value_unguarded(r) == Quotient(r.total_weighted, r.total_credits)

\* the lambda of period_gpa.apply
period_gpa_value(r) ==
    IF r.total_credits > 0 THEN Quotient(r.total_weighted, r.total_credits)
    ELSE Zero

\* one row of period_gpa: the aggregates of a group and its gpa
period_row(data, k) ==
    LET agg == [total_weighted |-> SumWeighted(GroupRows(data, k)),
                total_credits |-> SumCredits(GroupRows(data, k))]
    IN  [period_type |-> k[1], period_name |-> k[2],
         total_weighted |-> agg.total_weighted,
         total_credits |-> agg.total_credits,
         gpa |-> period_gpa_value(agg)]

period_gpa(calc_df) ==
    LET keys == SortKeys({GroupKey(calc_df[i]) : i \in 1..Len(calc_df)})
    IN  [i \in 1..Len(keys) |-> period_row(calc_df, keys[i])]

\* order_map's keys, at their values 1..6
ORDER_MAP == << <<"Q","1">>, <<"Q","2">>, <<"Q","3">>, <<"Q","4">>,
                <<"S","1">>, <<"S","2">> >>

\* the map with missing names filled by 0
order_key_zero(period_name) ==
    IF Contains(ORDER_MAP, period_name) THEN IndexOf(ORDER_MAP, period_name)
    ELSE 0

\* period_name.map(order_map).fillna(99)
order_key(period_name) ==
    IF Contains(ORDER_MAP, period_name) THEN IndexOf(ORDER_MAP, period_name)
    ELSE 99

\* sort_values("order_key"): every arrangement of the rows with the keys in
\* ascending order (the default sort is not stable, so rows with equal keys
\* come in any order)
RECURSIVE SortByOrderKey(_)
SortByOrderKey(S) ==
    IF S = {} THEN {<<>>}
    ELSE UNION { { <<r>> \o t : t \in SortByOrderKey(S \ {r}) } :
                 r \in { x \in S : \A y \in S : x.order_key <= y.order_key } }

\* the orders trend_df can come in
trend_df(pgpa) ==
    SortByOrderKey({ [period_type |-> pgpa[i].period_type,
                      period_name |-> pgpa[i].period_name,
                      gpa |-> pgpa[i].gpa,
                      order_key |-> order_key(pgpa[i].period_name)] :
                     i \in 1..Len(pgpa) })

\* sort_values("period_name") on rows whose names are distinct
RECURSIVE SortByName(_)
SortByName(S) ==
    IF S = {} THEN <<>>
    ELSE LET m == CHOOSE x \in S :
                    \A y \in S \ {x} : StrLess(x.period_name, y.period_name)
         IN  <<m>> \o SortByName(S \ {m})

\* the table of one period type: q_df for "Quarter", sem_df for "Semester"
type_df(pgpa, period_type) ==
    SortByName({ [period_name |-> pgpa[i].period_name, gpa |-> pgpa[i].gpa] :
                 i \in { j \in 1..Len(pgpa) : pgpa[j].period_type = period_type } })

---------------------------------------------------------------------------
(* Exports *)

\* the page a line is drawn on: y starts at page_height - 40, a new page is
\* begun when y < 40, every line moves y down by 18 (y in hundredths of a
\* point, A4 being 841.89 points high)
RECURSIVE PdfPages(_, _, _)
PdfPages(n_lines, y, pages) ==
    IF n_lines = 0 THEN pages
    ELSE IF y < 40 * 100 THEN PdfPages(n_lines - 1, 84189 - 40 * 100 - 18 * 100, pages + 1)
    ELSE PdfPages(n_lines - 1, y - 18 * 100, pages)

\* the document: ten header lines, then one line per record
build_pdf_bytes(report_df) ==
    LET n_lines == 10 + Len(report_df)
    IN  [file_name |-> "gpa_esep.pdf", header_lines |-> 10,
         record_lines |-> Len(report_df),
         pages |-> PdfPages(n_lines, 84189 - 40 * 100, 1)]

\* the workbook: the sheets "Ulgerim" and "Period GPA", by their row counts
build_excel(calc_df, pgpa) ==
    [file_name |-> "gpa_esep.xlsx", ulgerim_rows |-> Len(calc_df),
     period_rows |-> Len(pgpa)]

---------------------------------------------------------------------------
(* The main area of a script run.  Every run, whatever the sidebar did,    *)
(* goes on to build the main area from the store as the sidebar left it,  *)
(* so the page shown in a state is Render(records).                       *)

\* what the run shows when the store is empty: the warning, then st.stop()
StoppedPage ==
    [stopped |-> TRUE, overall_gpa |-> Zero, n_subjects |-> 0, n_records |-> 0,
     period_gpa |-> <<>>, trend_df |-> <<>>, q_df |-> <<>>, sem_df |-> <<>>,
     excel |-> <<>>, pdf |-> <<>>]

\* the script from normalize_df on: the metrics, the tables, the chart order
\* and the two downloads (one page for each order trend_df can come in)
MainArea(recs) ==
    LET calc_df == normalize_df(recs)
        pgpa == period_gpa(calc_df)
    IN  { [stopped |-> FALSE,
           overall_gpa |-> calculate_overall_gpa(calc_df),
           n_subjects |-> Cardinality({calc_df[i].subject : i \in 1..Len(calc_df)}),
           n_records |-> Len(calc_df),
           period_gpa |-> pgpa,
           trend_df |-> t,
           q_df |-> type_df(pgpa, "Quarter"),
           sem_df |-> type_df(pgpa, "Semester"),
           excel |-> <<build_excel(calc_df, pgpa)>>,
           pdf |-> <<build_pdf_bytes(recs)>>] : t \in trend_df(pgpa) }

\* a run that does not stop on an empty store
RenderWithoutStop(recs) == MainArea(recs)

\* the pages a run can show for the store recs
Render(recs) == IF recs = <<>> THEN {StoppedPage} ELSE MainArea(recs)

---------------------------------------------------------------------------
(* The random module: a 16-bit linear congruential generator stands for   *)
(* the generator; Rand(seed, i) is its state at the i-th draw.            *)

Lcg(x) == (x * 25173 + 13849) % 65536

\* the n states the generator goes through after state x
RECURSIVE Stream(_, _)
Stream(x, n) == IF n = 0 THEN <<>> ELSE <<Lcg(x)>> \o Stream(Lcg(x), n - 1)

\* the states after each seed, as many as the largest sample draws (one per
\* subject and four per record)
Streams ==
    [seed \in 0..(IF MaxSeed > MaxCallSeed THEN MaxSeed ELSE MaxCallSeed) |->
       Stream(seed, 5 * Len(RANDOM_SUBJECTS))]

Rand(seed, i) == Streams[seed][i]

\* a number in 0 .. n-1 from the generator state x
randbelow(n, x) == (x \div 256) % n

\* random.choice(seq)
random_choice(seq, x) == seq[randbelow(Len(seq), x) + 1]

\* random.randint(a, b)
random_randint(a, b, x) == a + randbelow(b - a + 1, x)

\* random.sample(population, k) by its pool algorithm: the i-th pick is
\* pool[j] for j below n - i, and the last unpicked entry moves into its place
RECURSIVE SamplePool(_, _, _, _)
SamplePool(pool, k, i, seed) ==
    IF i = k THEN <<>>
    ELSE LET n == Len(pool)
             j == randbelow(n - i, Rand(seed, i + 1)) + 1
         IN  <<pool[j]>> \o
             SamplePool([pool EXCEPT ![j] = pool[n - i]], k, i + 1, seed)

random_sample(population, k, seed) == SamplePool(population, k, 0, seed)

Min(a, b) == IF a <= b THEN a ELSE b

\* the record built for the i-th sampled subject; the draws of one record
\* are, in order: score type, grade, credits, period
random_record(subject, i, k, seed) ==
    LET d == k + 4 * (i - 1)
        score_type == random_choice(SCORE_TYPES, Rand(seed, d + 1))
        grade == IF score_type = "Letter"
                 THEN LetterGrade(<<random_choice(LETTERS, Rand(seed, d + 2))>>)
                 ELSE NumericGrade(100 * random_randint(55, 100, Rand(seed, d + 2)))
    IN  [subject |-> subject,
         credits |-> 2 * random_choice(<<2, 3, 4>>, Rand(seed, d + 3)),
         score_type |-> score_type,
         grade |-> grade,
         period |-> random_choice(PERIODS, Rand(seed, d + 4))]

\* generate_random_records drawing every subject on its own (random.choice)
generate_random_records_repeating(size, seed) ==
    LET k == Min(size, Len(RANDOM_SUBJECTS))
    IN  [i \in 1..k |->
           random_record(random_choice(RANDOM_SUBJECTS, Rand(seed, i)), i, k, seed)]

generate_random_records(size, seed) ==
    LET k == Min(size, Len(RANDOM_SUBJECTS))
        sample == random_sample(RANDOM_SUBJECTS, k, seed)
    IN  [i \in 1..k |-> random_record(sample[i], i, k, seed)]

---------------------------------------------------------------------------
(* Session state and the sidebar *)

\* st.session_state.records of a new session
InitialRecords ==
    << [subject |-> <<"Matematika">>, credits |-> 2 * 4, score_type |-> "Letter",
        grade |-> LetterGrade(<<"A">>), period |-> <<"Q","1">>],
       [subject |-> <<"Fizika">>, credits |-> 2 * 3, score_type |-> "Numeric",
        grade |-> NumericGrade(100 * 86), period |-> <<"Q","1">>],
       [subject |-> <<"Agylshyn tili">>, credits |-> 2 * 2, score_type |-> "Letter",
        grade |-> LetterGrade(<<"B">>), period |-> <<"Q","2">>],
       [subject |-> <<"Tarih">>, credits |-> 2 * 2, score_type |-> "Numeric",
        grade |-> NumericGrade(100 * 92), period |-> <<"Q","2">>],
       [subject |-> <<"Informatika">>, credits |-> 2 * 3, score_type |-> "Letter",
        grade |-> LetterGrade(<<"A">>), period |-> <<"S","1">>],
       [subject |-> <<"Biologiya">>, credits |-> 2 * 3, score_type |-> "Numeric",
        grade |-> NumericGrade(100 * 74), period |-> <<"S","2">>] >>

\* st.number_input(min_value, max_value, value) for an entry `typed`: an entry
\* within the limits is returned; one outside them is never returned, the
\* widget gives a value within its limits instead (the one it held, `value`,
\* or the nearest limit)
\* a widget without limits
number_input_unlimited(typed, min_value, max_value, value) == {typed}

number_input(typed, min_value, max_value, value) ==
    IF min_value <= typed /\ typed <= max_value THEN {typed}
    ELSE {value, IF typed < min_value THEN min_value ELSE max_value}

\* the add form before anything is entered (its widgets' defaults)
NoForm ==
    [submitted |-> FALSE, subject |-> <<>>, credits |-> 2 * 3,
     score_type |-> "Letter", grade |-> LetterGrade(<<"A">>),
     period |-> PERIODS[1]]

\* what the user enters in the form
SubjectInputs == { <<>>, <<" ", "\t">>, <<" ", "Geometriya", "\t">> }
CreditInputs == { 1, 41 }
GradeInputs(score_type) ==
    IF score_type = "Letter" THEN { LetterGrade(<<"B">>) }
    ELSE { NumericGrade(100 * 101) }
PeriodInputs == { PERIODS[3] }

\* the grade the form's grade widget returns
grade_widget(score_type, typed) ==
    IF score_type = "Letter" THEN {typed}
    ELSE { NumericGrade(g) : g \in number_input(typed.n, 0, 100 * 100, 100 * 85) }

\* a check of the raw entry, without strip()
SubjectIsEmpty(subject) == subject = <<>>

\* not subject.strip()
SubjectIsBlank(subject) == Strip(subject) = <<>>

\* a run in which the form was submitted
Submit ==
    \E subject \in SubjectInputs, credits_typed \in CreditInputs,
       s \in 1..Len(SCORE_TYPES), period \in PeriodInputs :
      \E grade_typed \in GradeInputs(SCORE_TYPES[s]) :
        \E credits \in number_input(credits_typed, 1, 2 * 20, 2 * 3),
           grade \in grade_widget(SCORE_TYPES[s], grade_typed) :
          /\ form' = [submitted |-> TRUE, subject |-> subject,
                      credits |-> credits_typed, score_type |-> SCORE_TYPES[s],
                      grade |-> grade_typed, period |-> period]
          /\ IF SubjectIsBlank(subject)
             THEN /\ banner' = "warning: enter the subject"
                  /\ UNCHANGED <<records, submits>>
             ELSE /\ submits < MaxSubmits
                  /\ records' = Append(records,
                                  [subject |-> Strip(subject), credits |-> credits,
                                   score_type |-> SCORE_TYPES[s], grade |-> grade,
                                   period |-> period])
                  /\ banner' = "success: record added"
                  /\ submits' = submits + 1
          /\ UNCHANGED call

\* generate_random_records(6) for each state the generator can be in when
\* the button is pressed
RandomizeOutcome == [seed \in 0..MaxSeed |-> generate_random_records(6, seed)]

\* a run in which the randomize button was pressed
Randomize ==
    \E seed \in 0..MaxSeed :
      /\ records' = RandomizeOutcome[seed]
      /\ banner' = "success: random data loaded"
      /\ form' = NoForm
      /\ submits' = 0
      /\ UNCHANGED call

\* a run in which the clear button was pressed
ClearAll ==
    /\ records' = <<>>
    /\ banner' = "info: all records removed"
    /\ form' = NoForm
    /\ submits' = 0
    /\ UNCHANGED call

\* a run caused by any other interaction: the sidebar changes nothing
Rerun ==
    /\ banner' = "none"
    /\ form' = NoForm
    /\ UNCHANGED <<records, submits, call>>

NoCall == [fn |-> "none"]

Init ==
    /\ records = InitialRecords
    /\ banner = "none"
    /\ form = NoForm
    /\ submits = 0
    /\ call = NoCall

Next == Submit \/ Randomize \/ ClearAll \/ Rerun

Spec == Init /\ [][Next]_vars

---------------------------------------------------------------------------
(* Direct calls of the functions, on inputs the store never holds as well; *)
(* a behaviour makes one call, from the state no call was made in         *)

\* the strings of at most n characters over chars
Strings(chars, n) == UNION { [1..k -> chars] : k \in 0..n }

\* the frames of at most n rows over rows
Frames(rows, n) == UNION { [1..k -> rows] : k \in 0..n }

NumericScores == (0 - 50) .. MaxScore

LetterChars == {"A", "a", "b", "C", "d", "F", "f", "Z", "e", " "}

LetterScores ==
    { LetterGrade(s) : s \in Strings(LetterChars, MaxChars) }
      \cup { NumericGrade(100 * 86) }

PeriodChars == {"q", "Q", "s", "S", "m", "1", " ", "\t"}

PeriodLabels == Strings(PeriodChars, MaxChars) \cup {None}

Row(grade_type, grade, credits, period) ==
    [subject |-> <<"Himiya">>, credits |-> credits, score_type |-> grade_type,
     grade |-> grade, period |-> period]

\* rows of varying grades and credits (no credits, a negative entry)
GradeRows ==
    { Row(g[1], g[2], c, <<"Q","1">>) :
        g \in { <<"Letter", LetterGrade(<<"A">>)>>, <<"Letter", LetterGrade(<<"c">>)>>,
                <<"Numeric", NumericGrade(5999)>>, <<"Numeric", NumericGrade(9000)>> },
        c \in { 0 - 2, 0, 4, 8 } }

\* rows of varying grades, credits and periods
SummaryRows ==
    { Row(g[1], g[2], c, p) :
        g \in { <<"Letter", LetterGrade(<<"A">>)>>, <<"Numeric", NumericGrade(7000)>> },
        c \in { 0, 8 },
        p \in { <<"Q","1">>, <<" ","s","2">>, <<"m">> } }

\* rows of varying period labels
PeriodRows ==
    { Row("Letter", LetterGrade(<<"A">>), 8, p) :
        p \in { <<"S","2">>, <<"Q","1">>, <<"Q","3">>, <<"S","1">>, <<>>, <<"q">> } }

CallScoreToPoints ==
    /\ call = NoCall
    /\ \E s \in 1..Len(SCORE_TYPES) :
           \E v \in IF SCORE_TYPES[s] = "Letter" THEN LetterScores
                    ELSE { NumericGrade(h) : h \in NumericScores } :
             /\ call' = [fn |-> "score_to_points", score_type |-> SCORE_TYPES[s],
                         score_value |-> v, ret |-> score_to_points(SCORE_TYPES[s], v)]
             /\ UNCHANGED <<records, banner, form, submits>>

CallParsePeriod ==
    /\ call = NoCall
    /\ \E raw \in PeriodLabels :
           /\ call' = [fn |-> "parse_period", period_raw |-> raw,
                       ret |-> parse_period(raw)]
           /\ UNCHANGED <<records, banner, form, submits>>

CallOverallGpa ==
    /\ call = NoCall
    /\ \E df \in Frames(GradeRows, MaxLen) :
           /\ call' = [fn |-> "calculate_overall_gpa", data |-> normalize_df(df),
                       ret |-> calculate_overall_gpa(normalize_df(df))]
           /\ UNCHANGED <<records, banner, form, submits>>

\* the main area built for a given non-empty store
RunPipeline ==
    /\ call = NoCall
    /\ \E df \in (Frames(SummaryRows, MaxRows) \cup Frames(PeriodRows, MaxPeriods)) \ {<<>>} :
           \E p \in Render(df) :
             /\ call' = [fn |-> "pipeline", data |-> normalize_df(df), page |-> p]
             /\ UNCHANGED <<records, banner, form, submits>>

CallGenerate ==
    /\ call = NoCall
    /\ \E size \in 0..MaxSize, seed \in 0..MaxCallSeed :
           /\ call' = [fn |-> "generate_random_records", size |-> size, seed |-> seed,
                       ret |-> generate_random_records(size, seed)]
           /\ UNCHANGED <<records, banner, form, submits>>

FnNext == CallScoreToPoints \/ CallParsePeriod \/ CallOverallGpa \/ RunPipeline

\* the functions called on their own
SpecFn == Init /\ [][FnNext]_vars

RandNext == Randomize \/ ClearAll \/ CallGenerate

\* the randomize and clear buttons, and the generator called on its own
SpecRand == Init /\ [][RandNext]_vars

---------------------------------------------------------------------------
(* Reference notions the properties are stated with *)

\* the sum of f over the finite set S of its arguments
RECURSIVE SumOver(_, _)
SumOver(f, S) ==
    IF S = {} THEN 0
    ELSE LET x == CHOOSE x \in S : TRUE IN f[x] + SumOver(f, S \ {x})

\* q is the quotient n / d of a positive d
IsQuotient(q, n, d) == q.den > 0 /\ q.num * d = n * q.den

IsSpace(c) == c = " " \/ c = "\t"

\* s with the white space at its two ends cut off
Trimmed(s) ==
    LET inked == { i \in 1..Len(s) : ~IsSpace(s[i]) }
    IN  IF inked = {} THEN <<>>
        ELSE SubSeq(s, CHOOSE i \in inked : \A j \in inked : i <= j,
                       CHOOSE i \in inked : \A j \in inked : j <= i)

\* u is s in upper case
IsUpperOf(u, s) ==
    /\ Len(u) = Len(s)
    /\ \A i \in 1..Len(s) :
         \/ \E k \in 1..26 : s[i] = LOWERCASE[k] /\ u[i] = UPPERCASE[k]
         \/ (\A k \in 1..26 : s[i] # LOWERCASE[k]) /\ u[i] = s[i]

\* the place of a period name in Q1 < Q2 < Q3 < Q4 < S1 < S2 < any other name
CanonicalRank(name) ==
    CASE name = <<"Q","1">> -> 1
      [] name = <<"Q","2">> -> 2
      [] name = <<"Q","3">> -> 3
      [] name = <<"Q","4">> -> 4
      [] name = <<"S","1">> -> 5
      [] name = <<"S","2">> -> 6
      [] OTHER -> 7

\* the rows of a table are in the canonical order, names outside it last
InCanonicalOrder(table) ==
    \A i, j \in 1..Len(table) :
      i < j =>
        /\ CanonicalRank(table[i].period_name) <= CanonicalRank(table[j].period_name)
        /\ table[i].period_name # table[j].period_name

\* the rows with a name of the canonical order are in that order
KnownInCanonicalOrder(table) ==
    \A i, j \in 1..Len(table) :
      (i < j /\ CanonicalRank(table[i].period_name) < 7
             /\ CanonicalRank(table[j].period_name) < 7)
        => CanonicalRank(table[i].period_name) < CanonicalRank(table[j].period_name)

\* a record a store may hold: credits >= 0, a numeric grade in [0, 100], a
\* letter grade among A, B, C, D, F
ValidRecord(r) ==
    /\ r.credits >= 0
    /\ r.score_type = "Numeric" => r.grade.kind = "num" /\ r.grade.n >= 0
                                   /\ r.grade.n <= 100 * 100
    /\ r.score_type = "Letter" => r.grade.kind = "str"
                                  /\ r.grade.s \in { <<"A">>, <<"B">>, <<"C">>, <<"D">>, <<"F">> }

ValidStore(recs) == \A i \in 1..Len(recs) : ValidRecord(recs[i])

---------------------------------------------------------------------------
(* C1 *)

\* C1: for a numeric score x, score_to_points returns 4 if x >= 90, 3 if
\* 80 <= x < 90, 2 if 70 <= x < 80, 1 if 60 <= x < 70 and 0 otherwise
\* (scores in hundredths)
C1_NumericBands ==
    (call.fn = "score_to_points" /\ call.score_type = "Numeric") =>
      LET x == call.score_value.n
      IN  /\ x >= 9000 => call.ret = 4
          /\ (8000 <= x /\ x < 9000) => call.ret = 3
          /\ (7000 <= x /\ x < 8000) => call.ret = 2
          /\ (6000 <= x /\ x < 7000) => call.ret = 1
          /\ x < 6000 => call.ret = 0

\* the score 80 (a lower bound, included in its band) was given 3 points
C1_Witness ==
    /\ call.fn = "score_to_points" /\ call.score_type = "Numeric"
    /\ call.score_value.n = 8000 /\ call.ret = 3

(* C2 *)

\* C2: for a letter score, score_to_points returns 4, 3, 2, 1, 0 for A, B,
\* C, D, F in either case, and 0 for every other value
C2_LetterTable ==
    (call.fn = "score_to_points" /\ call.score_type = "Letter") =>
      LET v == call.score_value
          is(upper, lower) == v.kind = "str" /\ (v.s = <<upper>> \/ v.s = <<lower>>)
      IN  /\ is("A", "a") => call.ret = 4
          /\ is("B", "b") => call.ret = 3
          /\ is("C", "c") => call.ret = 2
          /\ is("D", "d") => call.ret = 1
          /\ is("F", "f") => call.ret = 0
          /\ ~(is("A", "a") \/ is("B", "b") \/ is("C", "c") \/ is("D", "d")
               \/ is("F", "f")) => call.ret = 0

\* the letter "a", in lower case, was given 4 points
C2_Witness ==
    /\ call.fn = "score_to_points" /\ call.score_type = "Letter"
    /\ call.score_value.s = <<"a">> /\ call.ret = 4

(* C3 *)

\* C3: calculate_overall_gpa returns 0.0 when the credits sum to 0 or less
\* (the empty frame included) and otherwise the sum of gpa_points * credits
\* divided by the sum of credits; it never divides by zero
C3_WeightedMean ==
    call.fn = "calculate_overall_gpa" =>
      LET data == call.data
          rows == 1..Len(data)
          credits == SumOver([i \in rows |-> data[i].credits], rows)
          points == SumOver([i \in rows |-> data[i].gpa_points * data[i].credits], rows)
      IN  /\ call.ret.den # 0
          /\ credits <= 0 => call.ret = Zero
          /\ credits > 0 => IsQuotient(call.ret, points, credits)

\* 4 credits at 4 points and 2 credits at 2 points gave 20/6 = 10/3
C3_Witness ==
    /\ call.fn = "calculate_overall_gpa"
    /\ Len(call.data) = 2
    /\ call.data[1].credits = 8 /\ call.data[1].gpa_points = 4
    /\ call.data[2].credits = 4 /\ call.data[2].gpa_points = 2
    /\ call.ret = [num |-> 10, den |-> 3]

(* C4 *)

\* C4: parse_period trims and upper-cases the label (a missing label counts
\* as empty) and returns (Other, "N/A") when nothing is left, (Quarter,
\* label) when it starts with Q, (Semester, label) when it starts with S
\* and (Other, label) otherwise
C4_ParsePeriod ==
    call.fn = "parse_period" =>
      LET t == IF call.period_raw = None THEN <<>> ELSE Trimmed(call.period_raw)
          type == call.ret[1]
          name == call.ret[2]
      IN  /\ t = <<>> => type = "Other" /\ name = <<"N","/","A">>
          /\ t # <<>> => IsUpperOf(name, t)
          /\ (t # <<>> /\ t[1] \in {"q", "Q"}) => type = "Quarter"
          /\ (t # <<>> /\ t[1] \in {"s", "S"}) => type = "Semester"
          /\ (t # <<>> /\ t[1] \notin {"q", "Q", "s", "S"}) => type = "Other"

\* " q1" was classified (Quarter, "Q1")
C4_Witness ==
    /\ call.fn = "parse_period"
    /\ call.period_raw = <<" ", "q", "1">>
    /\ call.ret = <<"Quarter", <<"Q", "1">> >>

(* C5 *)

\* C5: the period summary has exactly one row for each (period_type,
\* period_name) pair of the normalized records; the row's totals are the
\* sums over the records with that pair, and its gpa is total_weighted /
\* total_credits when total_credits > 0 and 0 otherwise
C5_PeriodSummary ==
    call.fn = "pipeline" =>
      LET data == call.data
          pgpa == call.page.period_gpa
          pair(r) == <<r.period_type, r.period_name>>
          members(k) == { i \in 1..Len(data) : pair(data[i]) = k }
      IN  /\ { pair(pgpa[i]) : i \in 1..Len(pgpa) } = { pair(data[i]) : i \in 1..Len(data) }
          /\ \A i, j \in 1..Len(pgpa) : pair(pgpa[i]) = pair(pgpa[j]) => i = j
          /\ \A i \in 1..Len(pgpa) :
               LET m == members(pair(pgpa[i]))
                   credits == SumOver([x \in m |-> data[x].credits], m)
                   points == SumOver([x \in m |-> data[x].gpa_points * data[x].credits], m)
               IN  /\ pgpa[i].total_credits = credits
                   /\ pgpa[i].total_weighted = points
                   /\ credits > 0 => IsQuotient(pgpa[i].gpa, points, credits)
                   /\ credits <= 0 => pgpa[i].gpa = Zero

\* three records in two periods: the two of Q1 (4 credits at 4 points and
\* 4 credits at 2 points) were summed into one row with gpa 3
C5_Witness ==
    /\ call.fn = "pipeline"
    /\ Len(call.data) = 3
    /\ Len(call.page.period_gpa) = 2
    /\ \E i \in 1..2 :
         /\ call.page.period_gpa[i].period_name = <<"Q","1">>
         /\ call.page.period_gpa[i].total_credits = 16
         /\ call.page.period_gpa[i].total_weighted = 48
         /\ call.page.period_gpa[i].gpa = [num |-> 3, den |-> 1]

(* C9 *)

BlankEntry(f) == \A i \in 1..Len(f.subject) : IsSpace(f.subject[i])

\* C6: a submission whose subject is blank after trimming leaves the store
\* as it was; one with a non-blank subject appends exactly one record, with
\* the trimmed subject, and leaves the earlier records as they were
C6_AddRejectsBlank ==
    [][ form'.submitted =>
          IF BlankEntry(form')
          THEN records' = records
          ELSE /\ Len(records') = Len(records) + 1
               /\ SubSeq(records', 1, Len(records)) = records
               /\ records'[Len(records')].subject = Trimmed(form'.subject)
               /\ records'[Len(records')].period = form'.period
               /\ records'[Len(records')].score_type = form'.score_type ]_vars

\* a subject of white space only was submitted and refused: the warning is
\* shown and the store still holds the six initial records
C6_Witness ==
    /\ form.submitted /\ form.subject = <<" ", "\t">>
    /\ banner = "warning: enter the subject"
    /\ records = InitialRecords

(* C7 *)

\* what randomize(n) must produce: min(n, 10) records of pairwise distinct
\* catalogue subjects, credits in {2, 3, 4}, a period of the fixed set, and
\* a grade valid for the score type
RandomShape(recs, n) ==
    /\ Len(recs) = (IF n <= 10 THEN n ELSE 10)
    /\ \A i, j \in 1..Len(recs) : recs[i].subject = recs[j].subject => i = j
    /\ \A i \in 1..Len(recs) :
         /\ \E k \in 1..Len(RANDOM_SUBJECTS) : recs[i].subject = RANDOM_SUBJECTS[k]
         /\ recs[i].credits \in {2 * 2, 2 * 3, 2 * 4}
         /\ recs[i].period \in { <<"Q","1">>, <<"Q","2">>, <<"Q","3">>, <<"Q","4">>,
                                 <<"S","1">>, <<"S","2">> }
         /\ recs[i].score_type \in {"Letter", "Numeric"}
         /\ ValidRecord(recs[i])

\* C7: randomize replaces the whole store by exactly min(n, catalogue size)
\* records (6 for the button's n = 6), whatever the store held, and the
\* generator gives for every n and every random outcome records of distinct
\* catalogue subjects with credits in {2,3,4}, a fixed period and a grade
\* valid for the score type
C7_RandomizeShape ==
    /\ banner = "success: random data loaded" => RandomShape(records, 6)
    /\ call.fn = "generate_random_records" => RandomShape(call.ret, call.size)

\* the button replaced the store by six records, some graded by letter and
\* some by number
C7_Witness ==
    /\ banner = "success: random data loaded"
    /\ Len(records) = 6
    /\ \E i, j \in 1..6 : records[i].score_type = "Letter"
                          /\ records[j].score_type = "Numeric"

(* C8 *)

\* C8 as claimed: in a run where the store is empty both exports are still
\* produced and offered
C8_Original ==
    records = <<>> =>
      \A p \in Render(records) : p.excel # <<>> /\ p.pdf # <<>>

\* C8 as amended: a run on an empty store shows the warning and stops before
\* the exports, so neither is produced; a run on a non-empty store produces
\* both, the workbook with one detail row per record and the document with
\* its ten header lines and one line per record
C8_ExportsNeedRecords ==
    \A p \in Render(records) :
      IF records = <<>>
      THEN p.stopped /\ p.excel = <<>> /\ p.pdf = <<>>
      ELSE /\ ~p.stopped
           /\ Len(p.excel) = 1 /\ p.excel[1].ulgerim_rows = Len(records)
           /\ p.excel[1].period_rows = Len(p.period_gpa)
           /\ Len(p.pdf) = 1 /\ p.pdf[1].header_lines = 10
           /\ p.pdf[1].record_lines = Len(records)

\* the store was cleared: the run on the empty store
C8_Witness ==
    /\ records = <<>>
    /\ banner = "info: all records removed"

(* C10 *)

\* the credits or the numeric grade entered in the form are outside the
\* range of their widget ([0.5, 20] and [0, 100])
OutOfRangeEntry(f) ==
    \/ f.credits < 1 \/ f.credits > 2 * 20
    \/ f.score_type = "Numeric" /\ (f.grade.n < 0 \/ f.grade.n > 100 * 100)

\* C10 as claimed: every stored record is valid, and a submission whose
\* credits or numeric grade are out of range is aborted and leaves the store
\* as it was
C10_Original ==
    [][ /\ ValidStore(records')
        /\ (form'.submitted /\ OutOfRangeEntry(form')) => records' = records ]_vars

\* C10 as amended: every stored record is valid (credits >= 0, in fact
\* within the form's [0.5, 20] or the generator's {2,3,4}; a numeric grade
\* in [0, 100]; a letter grade among A, B, C, D, F); an entry outside a
\* widget's range never reaches the store, but it does not abort the
\* submission: a submission leaves the store as it was exactly when its
\* subject is blank, and otherwise appends a record with values inside the
\* ranges
C10_ValidStore ==
    [][ /\ ValidStore(records) /\ ValidStore(records')
        /\ \A i \in 1..Len(records') : records'[i].credits >= 1
                                       /\ records'[i].credits <= 2 * 20
        /\ form'.submitted => (records' = records <=> BlankEntry(form')) ]_vars

\* credits of 20.5 were entered with a subject: the record was appended, with
\* credits inside the range
C10_Witness ==
    /\ form.submitted /\ form.credits = 41
    /\ banner = "success: record added"
    /\ records[Len(records)].credits <= 2 * 20

===========================================================================
